---- MODULE Spec2Model ----
(***************************************************************************)
(* A model of animate.py: Frame, DifferentialRenderer and the terminal it  *)
(* writes to.  One action per statement that writes to the terminal, moves *)
(* the playback cursor or raises; the terminal is a grid of rows, a cursor *)
(* and two modes, and `log' records every call made on the output stream.  *)
(***************************************************************************)
EXTENDS Integers, Sequences, FiniteSets

VARIABLES frames, pc, y, cur, nxt, pos, k, screen, cursor, cursorVisible,
          syncMode, log, callStart, intPc, intLen, dir, exc, ioPc

vars == <<frames, pc, y, cur, nxt, pos, k, screen, cursor, cursorVisible,
          syncMode, log, callStart, intPc, intLen, dir, exc, ioPc>>

-----------------------------------------------------------------------------
(* Bounds of the model.                                                    *)

\* at most this many frames in the frame sequence
MaxFrames == 3
\* at most this many rows in all the frames of a sequence together
MaxRows == 3
\* at most this many frames are fetched from the cyclic iterator
MaxSteps == 4
\* at most this many files in the frame directory
MaxFiles == 3
\* at most this many characters in a frame file
MaxText == 3

-----------------------------------------------------------------------------
(* Inputs: rows, frames, frame sequences.                                  *)

\* A row is a sequence of characters; the rows a frame may hold here: an
\* empty row, a short row and a longer row with other characters.
Rows == { <<>>, <<"a">>, <<"b", "b">> }

\* Frame.lines of every frame of at most b rows (Frame.__init__ keeps the
\* rows that splitlines() yields, empty rows included).
FramesUpTo(b) == UNION { [1..h -> Rows] : h \in 0..b }

RECURSIVE FrameSeqs(_, _)
\* every sequence of at most n frames holding at most b rows together
FrameSeqs(n, b) ==
    IF n = 0 THEN { <<>> }
    ELSE { <<>> } \cup
         UNION { { <<f>> \o s : s \in FrameSeqs(n - 1, b - Len(f)) } :
                 f \in FramesUpTo(b) }

-----------------------------------------------------------------------------
(* File names.                                                             *)

\* A file name, in the three parts load_frames looks at: what stands before
\* the last underscore (with it), the characters between it and the last four,
\* and the last four characters.
FileName(pre, idx, ext) == [pre |-> pre, idx |-> idx, ext |-> ext]

Digits == << "0", "1", "2", "3", "4", "5", "6", "7", "8", "9" >>

\* the name of the frame file of index i < 10, not padded
FrameName(i) == FileName("frame_cleaned_", << Digits[i + 1] >>, ".txt")

\* The names a directory may hold here: frame files of index 2, 10 and 2
\* again with a zero before it, a file with the prefix and the extension but
\* no number in between, and a file with another extension.
Names ==
    { FileName("frame_cleaned_", << "2" >>, ".txt"),
      FileName("frame_cleaned_", << "1", "0" >>, ".txt"),
      FileName("frame_cleaned_", << "0", "2" >>, ".txt"),
      FileName("frame_cleaned_", << "x" >>, ".txt"),
      FileName("frame_cleaned_", << "1" >>, ".bak") }

\* f.startswith("frame_cleaned_") and f.endswith(".txt")
IsFrameFile(name) == name.pre = "frame_cleaned_" /\ name.ext = ".txt"

\* whether int() accepts the characters of idx
IsInt(idx) == idx /= <<>> /\ \A i \in 1..Len(idx) : \E d \in 0..9 : Digits[d + 1] = idx[i]

RECURSIVE ParseInt(_)
\* int(idx) for decimal digits: leading zeros count for nothing
ParseInt(idx) ==
    IF idx = <<>> THEN 0
    ELSE 10 * ParseInt(SubSeq(idx, 1, Len(idx) - 1))
         + (CHOOSE d \in 0..9 : Digits[d + 1] = idx[Len(idx)])

RECURSIVE ParseLexical(_)
\* a number that orders index strings of up to two digits as strings
ParseLexical(idx) ==
    IF idx = <<>> THEN 0
    ELSE 100 * (1 + (CHOOSE d \in 0..9 : Digits[d + 1] = Head(idx)))
         + ParseLexical(Tail(idx)) \div 100

\* SortKey without int(): the names are sorted as strings
SortKeyLexical(name) == ParseLexical(name.idx)

\* key=lambda f_name: int(f_name.split('_')[-1][:-4])
SortKey(name) == ParseInt(name.idx)

\* the place of s[i] in sorted(s, key=...): behind the elements of a smaller
\* key and behind the elements of the same key that stand before it in s
Rank(s, i) ==
    1 + Cardinality({ j \in 1..Len(s) :
                        \/ SortKey(s[j]) < SortKey(s[i])
                        \/ SortKey(s[j]) = SortKey(s[i]) /\ j < i })

\* sorted(s, key=...): ascending keys, equal keys in the order of s
SortedByKey(s) == [p \in 1..Len(s) |-> s[CHOOSE i \in 1..Len(s) : Rank(s, i) = p]]

\* The characters of the files of the model.
TextChars == { "a", "\n", "\r" }

\* every text of at most n characters
Texts(n) == UNION { [1..l -> TextChars] : l \in 0..n }

RECURSIVE ReadFrom(_, _)
\* file.read() of a file opened in text mode: "\r\n" and "\r" come as "\n"
ReadFrom(raw, i) ==
    IF i > Len(raw) THEN <<>>
    ELSE IF raw[i] = "\r" /\ i < Len(raw) /\ raw[i + 1] = "\n"
         THEN << "\n" >> \o ReadFrom(raw, i + 2)
    ELSE IF raw[i] = "\r" THEN << "\n" >> \o ReadFrom(raw, i + 1)
    ELSE << raw[i] >> \o ReadFrom(raw, i + 1)

ReadText(raw) == ReadFrom(raw, 1)

\* the contents of the files of a directory of several files
FileTexts == { <<>>, << "a", "\n" >> }

RECURSIVE Listings(_, _)
\* os.listdir in every order: at most n files with names of avail
Listings(n, avail) ==
    IF n = 0 THEN { <<>> }
    ELSE { <<>> } \cup
         UNION { { << [name |-> x, raw |-> t] >> \o l :
                   l \in Listings(n - 1, avail \ { x }), t \in FileTexts } :
                 x \in avail }

\* The directories of the model: up to MaxFiles files of the names above, or
\* one frame file of up to MaxText characters.
Dirs ==
    Listings(MaxFiles, Names) \cup
    { << [name |-> FrameName(1), raw |-> t] >> : t \in Texts(MaxText) }

-----------------------------------------------------------------------------
(* Frame.                                                                  *)

\* A text is a sequence of characters.  The characters that end a line for
\* str.splitlines, as far as the texts of the model hold them.
LineBreaks == { "\n", "\r" }

RECURSIVE SplitFrom(_, _, _, _)
\* splitlines from position i on: row holds the characters since the last
\* line break, acc the rows before it
SplitFrom(text, i, row, acc) ==
    IF i > Len(text) THEN (IF row /= <<>> THEN Append(acc, row) ELSE acc)
    ELSE IF text[i] = "\r" /\ i < Len(text) /\ text[i + 1] = "\n"
         THEN SplitFrom(text, i + 2, <<>>, Append(acc, row))
    ELSE IF text[i] \in LineBreaks
         THEN SplitFrom(text, i + 1, <<>>, Append(acc, row))
    ELSE SplitFrom(text, i + 1, Append(row, text[i]), acc)

\* splitlines splitting at "\n" alone, as content.split("\n") does: a last
\* row after the last line break, if an empty one
split_newline(text) ==
    LET breaks == { i \in 1..Len(text) : text[i] = "\n" }
        starts == { 1 } \cup { i + 1 : i \in breaks }
        end(b) == IF \E i \in breaks : i >= b
                  THEN (CHOOSE i \in breaks : i >= b /\ \A j \in breaks : j >= b => i <= j) - 1
                  ELSE Len(text)
        order == CHOOSE f \in [1..Cardinality(starts) -> starts] :
                     \A a, b \in 1..Cardinality(starts) : a < b => f[a] < f[b]
    IN  [n \in 1..Cardinality(starts) |-> SubSeq(text, order[n], end(order[n]))]

\* content.splitlines()
splitlines(text) == SplitFrom(text, 1, <<>>, <<>>)

\* The character classes of the pattern of strip_ansi, with the characters
\* of each that the model writes: ESC, [@-Z\\-_], [0-?], [ -/] and [@-~].
Esc == "ESC"
EscSingle == { "@", "A", "M", "Z", "\\", "]", "^", "_" }
EscParams == { "0", "1", "2", "3", "4", "5", "6", "7", "8", "9", ":", ";", "<", "=", ">", "?" }
EscInter == { " ", "!", "#", "$", "%", "&", "(", ")", "*", "+", ",", "-", ".", "/" }
EscFinal == EscSingle \cup { "[", "a", "b", "m", "x", "z", "{", "|", "}", "~" }

RECURSIVE SkipWhile(_, _, _)
\* the first position from i on whose character is not in S
SkipWhile(text, i, S) ==
    IF i <= Len(text) /\ text[i] \in S THEN SkipWhile(text, i + 1, S) ELSE i

RECURSIVE StripFrom(_, _)
\* re.sub of strip_ansi from position i on
StripFrom(text, i) ==
    IF i > Len(text) THEN <<>>
    ELSE IF text[i] = Esc /\ i < Len(text) /\ text[i + 1] \in EscSingle
         THEN StripFrom(text, i + 2)
    ELSE IF text[i] = Esc /\ i < Len(text) /\ text[i + 1] = "["
         THEN LET j == SkipWhile(text, SkipWhile(text, i + 2, EscParams), EscInter)
              IN  IF j <= Len(text) /\ text[j] \in EscFinal
                  THEN StripFrom(text, j + 1)
                  ELSE <<text[i]>> \o StripFrom(text, i + 1)
    ELSE <<text[i]>> \o StripFrom(text, i + 1)

\* Frame.strip_ansi
strip_ansi(text) == StripFrom(text, 1)

\* max of a non-empty set of numbers
MaxOf(S) == CHOOSE m \in S : \A n \in S : n <= m

\* Frame.__init__ with split("\n") for splitlines()
FrameSplitNewline(name, content) ==
    LET lines == split_newline(content)
    IN  [name |-> name,
         lines |-> lines,
         height |-> Len(lines),
         width |-> IF lines /= <<>>
                   THEN MaxOf({ Len(strip_ansi(lines[i])) : i \in 1..Len(lines) })
                   ELSE 0]

\* Frame.__init__: Frame(name, content)
Frame(name, content) ==
    LET lines == splitlines(content)
    IN  [name |-> name,
         lines |-> lines,
         height |-> Len(lines),
         width |-> IF lines /= <<>>
                   THEN MaxOf({ Len(strip_ansi(lines[i])) : i \in 1..Len(lines) })
                   ELSE 0]

\* frames[i] of the Python list (0-based)
FrameAt(i) == frames[i + 1]

\* Frame.height
height(f) == f.height

\* Optional[str]: None, or a row
None == [some |-> FALSE, val |-> <<>>]
Some(r) == [some |-> TRUE, val |-> r]

\* get_line giving an empty row where the code gives None
get_line_empty(f, i) ==
    IF 0 <= i /\ i < height(f) THEN Some(f.lines[i + 1]) ELSE Some(<<>>)

\* Frame.get_line
get_line(f, i) == IF 0 <= i /\ i < height(f) THEN Some(f.lines[i + 1]) ELSE None

RECURSIVE TextOf(_)
\* a text whose lines are the rows of l: every row with a line feed after it
TextOf(l) == IF l = <<>> THEN <<>> ELSE Head(l) \o << "\n" >> \o TextOf(Tail(l))

\* self.frames as load_frames builds it from files holding the rows of s
FrameObjects(s) == [i \in 1..Len(s) |-> Frame(FrameName(i - 1), TextOf(s[i]))]

-----------------------------------------------------------------------------
(* find_line_differences: a list of (column, text) pairs.                  *)

\* find_line_differences testing `not line' where the code tests `line is
\* None': an empty row counts as no row
find_line_differences_falsy(old_line, new_line) ==
    LET no(l) == l = None \/ l.val = <<>>
    IN  IF no(old_line) /\ no(new_line) THEN <<>>
        ELSE IF no(old_line) THEN << <<0, new_line.val>> >>
        ELSE IF no(new_line) THEN << <<0, <<>> >> >>
        ELSE IF old_line /= new_line THEN << <<0, new_line.val>> >>
        ELSE <<>>

\* find_line_differences without the comparison: every present row is
\* rewritten
find_line_differences_always(old_line, new_line) ==
    IF old_line = None /\ new_line = None THEN <<>>
    ELSE IF old_line = None THEN << <<0, new_line.val>> >>
    ELSE IF new_line = None THEN << <<0, <<>> >> >>
    ELSE << <<0, new_line.val>> >>

\* find_line_differences reporting nothing for a row the new frame lacks
find_line_differences_present(old_line, new_line) ==
    IF new_line = None THEN <<>>
    ELSE IF old_line = None THEN << <<0, new_line.val>> >>
    ELSE IF old_line /= new_line THEN << <<0, new_line.val>> >>
    ELSE <<>>

find_line_differences(old_line, new_line) ==
    IF old_line = None /\ new_line = None THEN <<>>
    ELSE IF old_line = None THEN << <<0, new_line.val>> >>
    ELSE IF new_line = None THEN << <<0, <<>> >> >>
    ELSE IF old_line /= new_line THEN << <<0, new_line.val>> >>
    ELSE <<>>

Max(a, b) == IF a >= b THEN a ELSE b

-----------------------------------------------------------------------------
(* The terminal behind sys.stdout.                                         *)

\* one call on the output stream (or a sleep), as recorded in log
Ev(op, row, text) == [op |-> op, row |-> row, text |-> text]

ScreenRows == 0..(MaxRows - 1)

\* what main printed before the playback starts is still on the screen
Stale == <<"#", "#", "#">>

Blank == <<>>

Notice == <<"Animation stopped.">>

\* text written into a row at column col: it replaces the characters it
\* covers and leaves the others
PutAt(r, col, t) ==
    LET padded == r \o [i \in 1..(col - Len(r)) |-> " "]
    IN  SubSeq(padded, 1, col) \o t \o SubSeq(padded, col + Len(t) + 1, Len(padded))

\* self.stdout.write(text) for a text without control characters
WriteText(t) ==
    /\ screen' = IF cursor.row \in ScreenRows
                 THEN [screen EXCEPT ![cursor.row] = PutAt(@, cursor.col, t)]
                 ELSE screen
    /\ cursor' = [cursor EXCEPT !.col = @ + Len(t)]

\* ESC[2J ESC[H
ClearScreen ==
    /\ screen' = [r \in ScreenRows |-> Blank]
    /\ cursor' = [row |-> 0, col |-> 0]

\* ESC[{y+1};{x+1}H
MoveCursor(x, row) == cursor' = [row |-> row, col |-> x]

\* ESC[2K: the whole row of the cursor, the cursor stays
EraseLine ==
    /\ screen' = IF cursor.row \in ScreenRows
                 THEN [screen EXCEPT ![cursor.row] = Blank]
                 ELSE screen
    /\ UNCHANGED cursor

Emit(e) == log' = Append(log, e)

-----------------------------------------------------------------------------
(* run_animation.                                                          *)

\* the renderer before run_animation, its frames one of the sequences of S
InitOver(S) ==
    /\ frames \in S
    /\ pc = "start"
    /\ y = 0
    /\ cur = -1
    /\ nxt = -1
    /\ pos = 0
    /\ k = 0
    /\ screen = [r \in ScreenRows |-> Stale]
    /\ cursor = [row |-> 0, col |-> 0]
    /\ cursorVisible = TRUE
    /\ syncMode = FALSE
    /\ log = <<>>
    /\ callStart = 0
    /\ intPc = "none"
    /\ intLen = -1
    /\ dir = <<>>
    /\ exc = "none"
    /\ ioPc = "none"

Init == InitOver({ FrameObjects(s) : s \in FrameSeqs(MaxFrames, MaxRows) })

\* the same with one frame and one row less
FairInit == InitOver({ FrameObjects(s) : s \in FrameSeqs(MaxFrames - 1, MaxRows - 1) })

\* Start with the test inside the try block: the return runs the finally block
StartInsideTry ==
    /\ pc = "start"
    /\ pc' = IF frames = <<>> THEN "td_show" ELSE "hide"
    /\ UNCHANGED <<frames, y, cur, nxt, pos, k, screen, cursor, cursorVisible,
                   syncMode, log, callStart, intPc, intLen, dir, exc, ioPc>>

\* if not self.frames: return
Start ==
    /\ pc = "start"
    /\ pc' = IF frames = <<>> THEN "returned" ELSE "hide"
    /\ UNCHANGED <<frames, y, cur, nxt, pos, k, screen, cursor, cursorVisible,
                   syncMode, log, callStart, intPc, intLen, dir, exc, ioPc>>

\* self.stdout.write(self.hide_cursor)
HideCursor ==
    /\ pc = "hide"
    /\ cursorVisible' = FALSE
    /\ Emit(Ev("hide", 0, <<>>))
    /\ pc' = "sync_write"
    /\ UNCHANGED <<frames, y, cur, nxt, pos, k, screen, cursor, syncMode,
                   callStart, intPc, intLen, dir, exc, ioPc>>

\* EnableSyncWrite with the mode sequence left out
EnableSyncSkipped ==
    /\ pc = "sync_write"
    /\ pc' = "sync_flush"
    /\ UNCHANGED <<frames, y, cur, nxt, pos, k, screen, cursor, cursorVisible,
                   syncMode, log, callStart, intPc, intLen, dir, exc, ioPc>>

\* enable_synchronized_mode: the write
EnableSyncWrite ==
    /\ pc = "sync_write"
    /\ syncMode' = TRUE
    /\ Emit(Ev("sync_on", 0, <<>>))
    /\ pc' = "sync_flush"
    /\ UNCHANGED <<frames, y, cur, nxt, pos, k, screen, cursor, cursorVisible,
                   callStart, intPc, intLen, dir, exc, ioPc>>

\* enable_synchronized_mode: the flush
EnableSyncFlush ==
    /\ pc = "sync_flush"
    /\ Emit(Ev("flush", 0, <<>>))
    /\ pc' = "rf_clear"
    /\ UNCHANGED <<frames, y, cur, nxt, pos, k, screen, cursor, cursorVisible,
                   syncMode, callStart, intPc, intLen, dir, exc, ioPc>>

\* render_frame(self.frames[0]): self.stdout.write(self.clear)
RenderClear ==
    /\ pc = "rf_clear"
    /\ ClearScreen
    /\ callStart' = Len(log)
    /\ Emit(Ev("clear", 0, <<>>))
    /\ y' = 0
    /\ pc' = IF Len(FrameAt(0).lines) = 0 THEN "rf_flush" ELSE "rf_move"
    /\ UNCHANGED <<frames, cur, nxt, pos, k, cursorVisible, syncMode, intPc,
                   intLen, dir, exc, ioPc>>

\* render_frame: self.stdout.write(self.move_cursor(0, y))
RenderMove ==
    /\ pc = "rf_move"
    /\ MoveCursor(0, y)
    /\ Emit(Ev("move", y, <<>>))
    /\ pc' = "rf_write"
    /\ UNCHANGED <<frames, y, cur, nxt, pos, k, screen, cursorVisible, syncMode,
                   callStart, intPc, intLen, dir, exc, ioPc>>

\* render_frame: self.stdout.write(line)
RenderWrite ==
    /\ pc = "rf_write"
    /\ WriteText(FrameAt(0).lines[y + 1])
    /\ Emit(Ev("write", cursor.row, FrameAt(0).lines[y + 1]))
    /\ y' = y + 1
    /\ pc' = IF y + 1 < Len(FrameAt(0).lines) THEN "rf_move" ELSE "rf_flush"
    /\ UNCHANGED <<frames, cur, nxt, pos, k, cursorVisible, syncMode,
                   callStart, intPc, intLen, dir, exc, ioPc>>

\* render_frame: self.stdout.flush()
RenderFlush ==
    /\ pc = "rf_flush"
    /\ Emit(Ev("flush", 0, <<>>))
    /\ pc' = "set_current"
    /\ UNCHANGED <<frames, y, cur, nxt, pos, k, screen, cursor, cursorVisible,
                   syncMode, callStart, intPc, intLen, dir, exc, ioPc>>

\* SetCurrent with the frames rotated in place:
\* self.frames.append(self.frames.pop(0)), then a cycle over self.frames
SetCurrentRotating ==
    /\ pc = "set_current"
    /\ frames' = Tail(frames) \o << Head(frames) >>
    /\ cur' = Len(frames) - 1
    /\ pos' = Len(frames) - 1
    /\ pc' = "fetch"
    /\ UNCHANGED <<y, nxt, k, screen, cursor, cursorVisible, syncMode,
                   log, callStart, intPc, intLen, dir, exc, ioPc>>

\* current_frame = self.frames[0], and the cyclic iterator of the for loop
SetCurrent ==
    /\ pc = "set_current"
    /\ cur' = 0
    /\ pos' = 0
    /\ pc' = "fetch"
    /\ UNCHANGED <<frames, y, nxt, k, screen, cursor, cursorVisible, syncMode,
                   log, callStart, intPc, intLen, dir, exc, ioPc>>

\* CycleList without the rotation: itertools.cycle(self.frames)
CycleListUnrotated == [i \in 1..Len(frames) |-> i - 1]

\* self.frames[1:] + [self.frames[0]], as indices into self.frames
CycleList ==
    LET idx == [i \in 1..Len(frames) |-> i - 1]
    IN  Tail(idx) \o <<Head(idx)>>

\* for next_frame in itertools.cycle(...): the next element, the list over
\* again when it is exhausted
Fetch ==
    /\ pc = "fetch"
    /\ k < MaxSteps
    /\ nxt' = CycleList[pos + 1]
    /\ pos' = (pos + 1) % Len(CycleList)
    /\ k' = k + 1
    /\ pc' = "sleep"
    /\ UNCHANGED <<frames, y, cur, screen, cursor, cursorVisible, syncMode,
                   log, callStart, intPc, intLen, dir, exc, ioPc>>

\* Sleep without the delay: the render follows the fetch at once
SleepDropped ==
    /\ pc = "sleep"
    /\ callStart' = Len(log)
    /\ y' = 0
    /\ pc' = "d_row"
    /\ UNCHANGED <<frames, cur, nxt, pos, k, screen, cursor, cursorVisible,
                   syncMode, log, intPc, intLen, dir, exc, ioPc>>

\* time.sleep(self.frame_delay), then the call of render_frame_difference
Sleep ==
    /\ pc = "sleep"
    /\ Emit(Ev("sleep", 0, <<>>))
    /\ callStart' = Len(log) + 1
    /\ y' = 0
    /\ pc' = "d_row"
    /\ UNCHANGED <<frames, cur, nxt, pos, k, screen, cursor, cursorVisible,
                   syncMode, intPc, intLen, dir, exc, ioPc>>

\* max_height taken from the current frame alone
max_height_current == height(FrameAt(cur))

\* max_height of render_frame_difference(current, next_frame)
max_height == Max(height(FrameAt(cur)), height(FrameAt(nxt)))

\* differences of row y in render_frame_difference
differences ==
    find_line_differences(get_line(FrameAt(cur), y), get_line(FrameAt(nxt), y))

\* DiffRow with the second loop over range(current.height)
DiffRowShrinkAll ==
    /\ pc = "d_row"
    /\ IF y < max_height
       THEN IF differences /= <<>>
            THEN pc' = "d_move" /\ y' = y
            ELSE pc' = "d_row" /\ y' = y + 1
       ELSE IF height(FrameAt(nxt)) < height(FrameAt(cur))
            THEN pc' = "s_move" /\ y' = 0
            ELSE pc' = "d_flush" /\ y' = y
    /\ UNCHANGED <<frames, cur, nxt, pos, k, screen, cursor, cursorVisible,
                   syncMode, log, callStart, intPc, intLen, dir, exc, ioPc>>

\* render_frame_difference: the head of the main loop and `if differences',
\* and after the loop `if next_frame.height < current.height'
DiffRow ==
    /\ pc = "d_row"
    /\ IF y < max_height
       THEN IF differences /= <<>>
            THEN pc' = "d_move" /\ y' = y
            ELSE pc' = "d_row" /\ y' = y + 1
       ELSE IF height(FrameAt(nxt)) < height(FrameAt(cur))
            THEN pc' = "s_move" /\ y' = height(FrameAt(nxt))
            ELSE pc' = "d_flush" /\ y' = y
    /\ UNCHANGED <<frames, cur, nxt, pos, k, screen, cursor, cursorVisible,
                   syncMode, log, callStart, intPc, intLen, dir, exc, ioPc>>

\* main loop: self.stdout.write(self.move_cursor(0, y))
DiffMove ==
    /\ pc = "d_move"
    /\ MoveCursor(0, y)
    /\ Emit(Ev("move", y, <<>>))
    /\ pc' = "d_erase"
    /\ UNCHANGED <<frames, y, cur, nxt, pos, k, screen, cursorVisible, syncMode,
                   callStart, intPc, intLen, dir, exc, ioPc>>

\* DiffErase without the erase: the row is rewritten over what it held
DiffEraseSkipped ==
    /\ pc = "d_erase"
    /\ UNCHANGED <<screen, cursor, log>>
    /\ IF get_line(FrameAt(nxt), y) /= None
       THEN pc' = "d_write" /\ y' = y
       ELSE pc' = "d_row" /\ y' = y + 1
    /\ UNCHANGED <<frames, cur, nxt, pos, k, cursorVisible, syncMode,
                   callStart, intPc, intLen, dir, exc, ioPc>>

\* main loop: self.stdout.write(self.erase_line), and `if next_line is not None'
DiffErase ==
    /\ pc = "d_erase"
    /\ EraseLine
    /\ Emit(Ev("erase", cursor.row, <<>>))
    /\ IF get_line(FrameAt(nxt), y) /= None
       THEN pc' = "d_write" /\ y' = y
       ELSE pc' = "d_row" /\ y' = y + 1
    /\ UNCHANGED <<frames, cur, nxt, pos, k, cursorVisible, syncMode,
                   callStart, intPc, intLen, dir, exc, ioPc>>

\* DiffWrite flushing after the row it wrote
DiffWriteFlushing ==
    /\ pc = "d_write"
    /\ WriteText(get_line(FrameAt(nxt), y).val)
    /\ log' = log \o << Ev("write", cursor.row, get_line(FrameAt(nxt), y).val),
                        Ev("flush", 0, <<>>) >>
    /\ y' = y + 1
    /\ pc' = "d_row"
    /\ UNCHANGED <<frames, cur, nxt, pos, k, cursorVisible, syncMode,
                   callStart, intPc, intLen, dir, exc, ioPc>>

\* main loop: self.stdout.write(next_line)
DiffWrite ==
    /\ pc = "d_write"
    /\ WriteText(get_line(FrameAt(nxt), y).val)
    /\ Emit(Ev("write", cursor.row, get_line(FrameAt(nxt), y).val))
    /\ y' = y + 1
    /\ pc' = "d_row"
    /\ UNCHANGED <<frames, cur, nxt, pos, k, cursorVisible, syncMode,
                   callStart, intPc, intLen, dir, exc, ioPc>>

\* second loop: self.stdout.write(self.move_cursor(0, y))
ShrinkMove ==
    /\ pc = "s_move"
    /\ MoveCursor(0, y)
    /\ Emit(Ev("move", y, <<>>))
    /\ pc' = "s_erase"
    /\ UNCHANGED <<frames, y, cur, nxt, pos, k, screen, cursorVisible, syncMode,
                   callStart, intPc, intLen, dir, exc, ioPc>>

\* second loop: self.stdout.write(self.erase_line)
ShrinkErase ==
    /\ pc = "s_erase"
    /\ EraseLine
    /\ Emit(Ev("erase", cursor.row, <<>>))
    /\ y' = y + 1
    /\ pc' = IF y + 1 < height(FrameAt(cur)) THEN "s_move" ELSE "d_flush"
    /\ UNCHANGED <<frames, cur, nxt, pos, k, cursorVisible, syncMode,
                   callStart, intPc, intLen, dir, exc, ioPc>>

\* render_frame_difference: self.stdout.flush()
DiffFlush ==
    /\ pc = "d_flush"
    /\ Emit(Ev("flush", 0, <<>>))
    /\ pc' = "advance"
    /\ UNCHANGED <<frames, y, cur, nxt, pos, k, screen, cursor, cursorVisible,
                   syncMode, callStart, intPc, intLen, dir, exc, ioPc>>

\* current_frame = next_frame
Advance ==
    /\ pc = "advance"
    /\ cur' = nxt
    /\ pc' = "fetch"
    /\ UNCHANGED <<frames, y, nxt, pos, k, screen, cursor, cursorVisible,
                   syncMode, log, callStart, intPc, intLen, dir, exc, ioPc>>

\* the statements of the try block
TryPcs ==
    { "hide", "sync_write", "sync_flush", "rf_clear", "rf_move", "rf_write",
      "rf_flush", "set_current", "fetch", "sleep", "d_row", "d_move",
      "d_erase", "d_write", "s_move", "s_erase", "d_flush", "advance" }

\* the statements of the finally block
FinallyPcs ==
    { "td_show", "td_clear", "td_sync_write", "td_sync_flush", "td_notice",
      "td_flush" }

\* Interrupt with the except clause inside the loop body: the loop goes on
\* with the next frame
InterruptResumed ==
    /\ pc \in TryPcs
    /\ intPc' = pc
    /\ intLen' = Len(log)
    /\ pc' = IF pc \in { "sleep", "d_row", "d_move", "d_erase", "d_write",
                         "s_move", "s_erase", "d_flush" }
             THEN "advance" ELSE "td_show"
    /\ UNCHANGED <<frames, y, cur, nxt, pos, k, screen, cursor, cursorVisible,
                   syncMode, log, callStart, dir, exc, ioPc>>

\* KeyboardInterrupt raised in the try block: except KeyboardInterrupt: pass,
\* then the finally block
Interrupt ==
    /\ pc \in TryPcs
    /\ intPc' = pc
    /\ intLen' = Len(log)
    /\ pc' = "td_show"
    /\ UNCHANGED <<frames, y, cur, nxt, pos, k, screen, cursor, cursorVisible,
                   syncMode, log, callStart, dir, exc, ioPc>>

\* finally: self.stdout.write(self.show_cursor)
TeardownShow ==
    /\ pc = "td_show"
    /\ cursorVisible' = TRUE
    /\ Emit(Ev("show", 0, <<>>))
    /\ pc' = "td_clear"
    /\ UNCHANGED <<frames, y, cur, nxt, pos, k, screen, cursor, syncMode,
                   callStart, intPc, intLen, dir, exc, ioPc>>

\* finally: self.stdout.write(self.clear)
TeardownClear ==
    /\ pc = "td_clear"
    /\ ClearScreen
    /\ Emit(Ev("clear", 0, <<>>))
    /\ pc' = "td_sync_write"
    /\ UNCHANGED <<frames, y, cur, nxt, pos, k, cursorVisible, syncMode,
                   callStart, intPc, intLen, dir, exc, ioPc>>

\* DisableSyncWrite left out of the finally block
DisableSyncForgotten ==
    /\ pc = "td_sync_write"
    /\ pc' = "td_notice"
    /\ UNCHANGED <<frames, y, cur, nxt, pos, k, screen, cursor, cursorVisible,
                   syncMode, log, callStart, intPc, intLen, dir, exc, ioPc>>

\* disable_synchronized_mode: the write
DisableSyncWrite ==
    /\ pc = "td_sync_write"
    /\ syncMode' = FALSE
    /\ Emit(Ev("sync_off", 0, <<>>))
    /\ pc' = "td_sync_flush"
    /\ UNCHANGED <<frames, y, cur, nxt, pos, k, screen, cursor, cursorVisible,
                   callStart, intPc, intLen, dir, exc, ioPc>>

\* disable_synchronized_mode: the flush
DisableSyncFlush ==
    /\ pc = "td_sync_flush"
    /\ Emit(Ev("flush", 0, <<>>))
    /\ pc' = "td_notice"
    /\ UNCHANGED <<frames, y, cur, nxt, pos, k, screen, cursor, cursorVisible,
                   syncMode, callStart, intPc, intLen, dir, exc, ioPc>>

\* finally: self.stdout.write("Animation stopped.\n")
TeardownNotice ==
    /\ pc = "td_notice"
    /\ screen' = IF cursor.row \in ScreenRows
                 THEN [screen EXCEPT ![cursor.row] = PutAt(@, cursor.col, Notice)]
                 ELSE screen
    /\ cursor' = [row |-> cursor.row + 1, col |-> 0]
    /\ Emit(Ev("notice", 0, Notice))
    /\ pc' = "td_flush"
    /\ UNCHANGED <<frames, y, cur, nxt, pos, k, cursorVisible, syncMode,
                   callStart, intPc, intLen, dir, exc, ioPc>>

\* finally: self.stdout.flush(); then run_animation returns, or the
\* exception that was not caught is raised again
TeardownFlush ==
    /\ pc = "td_flush"
    /\ Emit(Ev("flush", 0, <<>>))
    /\ pc' = IF exc = "none" THEN "returned" ELSE "raised"
    /\ UNCHANGED <<frames, y, cur, nxt, pos, k, screen, cursor, cursorVisible,
                   syncMode, callStart, intPc, intLen, dir, exc, ioPc>>

\* KeyboardInterrupt raised in the finally block: nothing catches it, the
\* rest of the block is skipped and the exception leaves run_animation
InterruptFinally ==
    /\ pc \in FinallyPcs
    /\ exc' = "KeyboardInterrupt"
    /\ pc' = "raised"
    /\ UNCHANGED <<frames, y, cur, nxt, pos, k, screen, cursor, cursorVisible,
                   syncMode, log, callStart, intPc, intLen, dir, ioPc>>

Next ==
    \/ Start
    \/ HideCursor
    \/ EnableSyncWrite
    \/ EnableSyncFlush
    \/ RenderClear
    \/ RenderMove
    \/ RenderWrite
    \/ RenderFlush
    \/ SetCurrent
    \/ Fetch
    \/ Sleep
    \/ DiffRow
    \/ DiffMove
    \/ DiffErase
    \/ DiffWrite
    \/ ShrinkMove
    \/ ShrinkErase
    \/ DiffFlush
    \/ Advance
    \/ Interrupt
    \/ TeardownShow
    \/ TeardownClear
    \/ DisableSyncWrite
    \/ DisableSyncFlush
    \/ TeardownNotice
    \/ TeardownFlush
    \/ InterruptFinally

Spec == Init /\ [][Next]_vars

\* The interpreter runs one thread: a statement that can run does run, and
\* only the interrupts are up to the environment.
Program ==
    \/ Start \/ HideCursor \/ EnableSyncWrite \/ EnableSyncFlush
    \/ RenderClear \/ RenderMove \/ RenderWrite \/ RenderFlush
    \/ SetCurrent \/ Fetch \/ Sleep
    \/ DiffRow \/ DiffMove \/ DiffErase \/ DiffWrite
    \/ ShrinkMove \/ ShrinkErase \/ DiffFlush \/ Advance
    \/ TeardownShow \/ TeardownClear \/ DisableSyncWrite \/ DisableSyncFlush
    \/ TeardownNotice \/ TeardownFlush

FairSpec == FairInit /\ [][Next]_vars /\ WF_vars(Program)


-----------------------------------------------------------------------------
(* A terminal that fails: write and flush raise OSError.                   *)

\* the statements of the try block that write to the stream or flush it
TryWritePcs == TryPcs \ { "set_current", "fetch", "sleep", "d_row", "advance" }

\* WriteFails under a bare `except:': the OSError is caught and dropped
WriteFailsSwallowed ==
    /\ pc \in TryWritePcs
    /\ ioPc' = pc
    /\ pc' = "td_show"
    /\ UNCHANGED <<frames, y, cur, nxt, pos, k, screen, cursor, cursorVisible,
                   syncMode, log, callStart, intPc, intLen, dir, exc>>

\* a write or a flush of the try block raises OSError: except
\* KeyboardInterrupt does not catch it, the finally block runs
WriteFails ==
    /\ pc \in TryWritePcs
    /\ exc' = "OSError"
    /\ ioPc' = pc
    /\ pc' = "td_show"
    /\ UNCHANGED <<frames, y, cur, nxt, pos, k, screen, cursor, cursorVisible,
                   syncMode, log, callStart, intPc, intLen, dir>>

\* a write or a flush of the finally block raises OSError once the stream
\* has failed: the rest of the block is skipped
FinallyWriteFails ==
    /\ pc \in FinallyPcs
    /\ ioPc /= "none"
    /\ exc' = "OSError"
    /\ pc' = "raised"
    /\ UNCHANGED <<frames, y, cur, nxt, pos, k, screen, cursor, cursorVisible,
                   syncMode, log, callStart, intPc, intLen, dir, ioPc>>

-----------------------------------------------------------------------------
(* load_frames and main.                                                   *)

\* frame_files of load_frames: the listed names that pass the filter
frame_files == SelectSeq([i \in 1..Len(dir) |-> dir[i].name], IsFrameFile)

\* the place of the file of a name in the directory
FileIndex(name) == CHOOSE i \in 1..Len(dir) : dir[i].name = name

\* file.read() of the file of a name
FileText(name) == ReadText(dir[FileIndex(name)].raw)

\* LoadFrames without `if not frame_files: raise ValueError(...)'
LoadFramesUnchecked ==
    /\ pc = "main_load"
    /\ IF \E i \in 1..Len(frame_files) : ~IsInt(frame_files[i].idx)
       THEN /\ exc' = "ValueError: invalid literal for int()"
            /\ pc' = "main_except"
            /\ frames' = frames
       ELSE /\ LET sorted == SortedByKey(frame_files)
               IN  frames' = frames \o
                       [i \in 1..Len(sorted) |-> Frame(sorted[i], FileText(sorted[i]))]
            /\ pc' = "main_print"
            /\ exc' = exc
    /\ UNCHANGED <<y, cur, nxt, pos, k, screen, cursor, cursorVisible,
                   syncMode, log, callStart, intPc, intLen, dir, ioPc>>

\* renderer.load_frames(folder_path), as far as it returns or raises
LoadFrames ==
    /\ pc = "main_load"
    /\ IF \E i \in 1..Len(frame_files) : ~IsInt(frame_files[i].idx)
       THEN /\ exc' = "ValueError: invalid literal for int()"
            /\ pc' = "main_except"
            /\ frames' = frames
       ELSE IF frame_files = <<>>
       THEN /\ exc' = "ValueError: No frame files found"
            /\ pc' = "main_except"
            /\ frames' = frames
       ELSE /\ LET sorted == SortedByKey(frame_files)
               IN  frames' = frames \o
                       [i \in 1..Len(sorted) |-> Frame(sorted[i], FileText(sorted[i]))]
            /\ pc' = "main_print"
            /\ exc' = exc
    /\ UNCHANGED <<y, cur, nxt, pos, k, screen, cursor, cursorVisible,
                   syncMode, log, callStart, intPc, intLen, dir, ioPc>>

\* print(f"Loaded {frame_count} frames. Starting animation...")
MainPrintLoaded ==
    /\ pc = "main_print"
    /\ Emit(Ev("print", 0, << "Loaded", Len(frames) >>))
    /\ pc' = "main_sleep"
    /\ UNCHANGED <<frames, y, cur, nxt, pos, k, screen, cursor, cursorVisible,
                   syncMode, callStart, intPc, intLen, dir, exc, ioPc>>

\* time.sleep(1), then the call renderer.run_animation()
MainSleep ==
    /\ pc = "main_sleep"
    /\ pc' = "start"
    /\ UNCHANGED <<frames, y, cur, nxt, pos, k, screen, cursor, cursorVisible,
                   syncMode, log, callStart, intPc, intLen, dir, exc, ioPc>>

\* run_animation has returned: main ends, the process exits
MainReturn ==
    /\ pc = "returned"
    /\ pc' = "exit"
    /\ UNCHANGED <<frames, y, cur, nxt, pos, k, screen, cursor, cursorVisible,
                   syncMode, log, callStart, intPc, intLen, dir, exc, ioPc>>

\* an exception has reached the try statement of main
AtMainExcept == pc = "main_except" \/ pc = "raised"

\* except Exception as e: print(f"Error: {e}"); main ends, the process exits
MainExcept ==
    /\ AtMainExcept
    /\ exc /= "KeyboardInterrupt"
    /\ Emit(Ev("print", 0, << "Error", exc >>))
    /\ pc' = "exit"
    /\ UNCHANGED <<frames, y, cur, nxt, pos, k, screen, cursor, cursorVisible,
                   syncMode, callStart, intPc, intLen, dir, exc, ioPc>>

\* the print of the except clause raises OSError on a stream that has failed:
\* nothing catches it, the interpreter ends the process
MainExceptFails ==
    /\ AtMainExcept
    /\ exc /= "KeyboardInterrupt"
    /\ ioPc /= "none"
    /\ pc' = "crashed"
    /\ UNCHANGED <<frames, y, cur, nxt, pos, k, screen, cursor, cursorVisible,
                   syncMode, log, callStart, intPc, intLen, dir, exc, ioPc>>

\* KeyboardInterrupt is no Exception: main does not catch it, the
\* interpreter ends the process
MainUncaught ==
    /\ pc = "raised"
    /\ exc = "KeyboardInterrupt"
    /\ pc' = "crashed"
    /\ UNCHANGED <<frames, y, cur, nxt, pos, k, screen, cursor, cursorVisible,
                   syncMode, log, callStart, intPc, intLen, dir, exc, ioPc>>

\* main() of a process started in a directory of D
MainInitOver(D) ==
    /\ dir \in D
    /\ frames = <<>>
    /\ pc = "main_load"
    /\ y = 0
    /\ cur = -1
    /\ nxt = -1
    /\ pos = 0
    /\ k = 0
    /\ screen = [r \in ScreenRows |-> Stale]
    /\ cursor = [row |-> 0, col |-> 0]
    /\ cursorVisible = TRUE
    /\ syncMode = FALSE
    /\ log = <<>>
    /\ callStart = 0
    /\ intPc = "none"
    /\ intLen = -1
    /\ exc = "none"
    /\ ioPc = "none"

MainInit == MainInitOver(Dirs)

\* the frame files of Names, one for each number
FairNames == { n \in Names : IsFrameFile(n) /\ n.idx /= << "0", "2" >> }

\* the same with one file less in the directory, the names those of FairNames
FairMainInit == MainInitOver(Listings(MaxFiles - 1, FairNames))

MainNext ==
    \/ LoadFrames
    \/ MainPrintLoaded
    \/ MainSleep
    \/ Next
    \/ WriteFails
    \/ FinallyWriteFails
    \/ MainReturn
    \/ MainExcept
    \/ MainExceptFails
    \/ MainUncaught

MainSpec == MainInit /\ [][MainNext]_vars

\* the steps of main and of what it calls; the interrupts and the failures
\* of the stream are up to the environment
MainProgram ==
    \/ LoadFrames \/ MainPrintLoaded \/ MainSleep \/ Program
    \/ MainReturn \/ MainExcept \/ MainUncaught

FairMainSpec == FairMainInit /\ [][MainNext]_vars /\ WF_vars(MainProgram)

-----------------------------------------------------------------------------
(* Properties.                                                             *)

\* the statements of render_frame_difference
DiffPcs == { "d_row", "d_move", "d_erase", "d_write", "s_move", "s_erase", "d_flush" }

\* what the render call in progress, or the last one, has put on the stream
CallLog == SubSeq(log, callStart + 1, Len(log))

\* the screen shows the rows of frame f and nothing else
ScreenShows(f) ==
    \A r \in ScreenRows : screen[r] = IF r < height(f) THEN f.lines[r + 1] ELSE Blank

\* C1: after render_frame(frames[0]) and after every completed
\* render_frame_difference(current, next) the screen shows exactly the rows of
\* the new current frame, every row at or beyond its height being blank.
C1_ScreenConsistent ==
    /\ pc = "set_current" => ScreenShows(FrameAt(0))
    /\ pc = "advance" => ScreenShows(FrameAt(nxt))
    /\ pc \in { "fetch", "sleep" } => ScreenShows(FrameAt(cur))

\* a diff render has completed that shrank the frame and rewrote a row with
\* a shorter one
C1_Witness ==
    /\ pc = "advance"
    /\ k >= 2
    /\ height(FrameAt(nxt)) < height(FrameAt(cur))
    /\ height(FrameAt(nxt)) >= 1
    /\ Len(FrameAt(nxt).lines[1]) < Len(FrameAt(cur).lines[1])

\* C2: the k-th diff step renders frames[k mod n] with frames[(k-1) mod n] as
\* the current frame (frames[1], ..., frames[n-1], frames[0], over and over).
C2_CyclicOrder ==
    pc \in DiffPcs \cup { "sleep", "advance" } =>
        /\ nxt = k % Len(frames)
        /\ cur = (k - 1) % Len(frames)

\* with three frames the fourth diff step is at frames[1] again
C2_Witness ==
    /\ pc = "advance"
    /\ Len(frames) = 3
    /\ k = 4
    /\ nxt = 1
    /\ cur = 0


\* what the finally block puts on the stream
TeardownEvents ==
    << Ev("show", 0, <<>>), Ev("clear", 0, <<>>), Ev("sync_off", 0, <<>>),
       Ev("flush", 0, <<>>), Ev("notice", 0, Notice), Ev("flush", 0, <<>>) >>

\* run_animation has returned, the stream got the teardown sequence and
\* nothing else since the interrupt, and the terminal is clean: cursor
\* visible, synchronized mode off, nothing on the screen but the notice
TeardownDone ==
    /\ pc = "returned"
    /\ Len(log) = intLen + Len(TeardownEvents)
    /\ SubSeq(log, intLen + 1, Len(log)) = TeardownEvents
    /\ cursorVisible
    /\ ~syncMode
    /\ \A r \in ScreenRows : screen[r] = IF r = 0 THEN Notice ELSE Blank

\* C3: an interrupt at any statement of the try block (Setup or Looping) is
\* followed by the teardown sequence show-cursor, clear, disable-sync (with its
\* flush), notice, flush, and run_animation returns with the terminal clean;
\* only a further interrupt inside the finally block itself ends it otherwise.
C3_TeardownRuns ==
    (intPc /= "none" /\ pc = "td_show") ~> (TeardownDone \/ pc = "raised")

\* interrupted between the erase and the write of a row, and torn down
C3_Witness ==
    /\ intPc = "d_erase"
    /\ TeardownDone


\* C4: with an empty frame sequence run_animation returns at once and the
\* stream gets nothing: no hide-cursor, no synchronized mode, no clear, no
\* teardown, no notice, no flush, no sleep; the terminal is as it was.
C4_EmptyNoOp ==
    frames = <<>> =>
        /\ pc \in { "start", "returned" }
        /\ log = <<>>
        /\ screen = [r \in ScreenRows |-> Stale]
        /\ cursor = [row |-> 0, col |-> 0]
        /\ cursorVisible
        /\ ~syncMode

\* run_animation has returned from an empty frame sequence
C4_Witness ==
    /\ frames = <<>>
    /\ pc = "returned"

\* every value a row argument of find_line_differences can take
OptRows == { None } \cup { Some(r) : r \in Rows }

\* the line diff rule for one pair of arguments and the result d
DiffRule(old_line, new_line, d) ==
    LET same == \/ old_line = None /\ new_line = None
                \/ /\ old_line /= None
                   /\ new_line /= None
                   /\ old_line.val = new_line.val
    IN  /\ d = <<>> <=> same
        /\ ~same => d = << <<0, IF new_line = None THEN <<>> ELSE new_line.val>> >>

\* C5: find_line_differences reports no change exactly when both rows are
\* absent or both are present and equal, and otherwise exactly one change whose
\* content is the new row, or the empty string when there is no new row; an
\* empty row and no row differ.  It holds of every pair of arguments and of
\* every call render_frame_difference makes.
C5_LineDiffRule ==
    /\ \A o \in OptRows, n \in OptRows : DiffRule(o, n, find_line_differences(o, n))
    /\ pc = "d_row" /\ y < max_height =>
           DiffRule(get_line(FrameAt(cur), y), get_line(FrameAt(nxt), y), differences)

\* the call compares an empty row of the current frame with no row of the
\* next frame and reports a change
C5_Witness ==
    /\ pc = "d_row"
    /\ y < max_height
    /\ get_line(FrameAt(cur), y) = Some(<<>>)
    /\ get_line(FrameAt(nxt), y) = None
    /\ differences = << <<0, <<>> >> >>

\* C6: render_frame_difference(F, F) puts no cursor move, no erase and no row
\* content on the stream, only the final flush, and leaves the screen showing
\* F as render_frame(F) left it.
C6_Idempotent ==
    pc \in DiffPcs \cup { "advance" } /\ FrameAt(cur).lines = FrameAt(nxt).lines =>
        /\ ScreenShows(FrameAt(cur))
        /\ CallLog = IF pc = "advance" THEN << Ev("flush", 0, <<>>) >> ELSE <<>>

\* render_frame(F) and then render_frame_difference(F, F) for a frame of two
\* rows: the stream holds what render_frame wrote, the sleep and one flush
C6_Witness ==
    /\ pc = "advance"
    /\ k = 1
    /\ Len(frames) = 1
    /\ height(FrameAt(0)) = 2
    /\ cur = nxt
    /\ Len(log) = 3 + (2 + 2 * 2) + 2


\* the call in progress has put a cursor move, an erase or a write on row r
Touched(r) ==
    \E i \in 1..Len(CallLog) :
        CallLog[i].op \in { "move", "erase", "write" } /\ CallLog[i].row = r

\* row r is the same in the current and in the next frame
SameRow(r) == get_line(FrameAt(cur), r) = get_line(FrameAt(nxt), r)

\* C7: when next is lower than current, a completed
\* render_frame_difference(current, next) has, for every row from next.height
\* to current.height - 1, moved to the row and erased it right after, and has
\* written no content on it; a row below next.height that is the same in both
\* frames got no cursor move, no erase and no write.
C7_Shrink ==
    pc = "advance" /\ height(FrameAt(nxt)) < height(FrameAt(cur)) =>
        /\ \A r \in height(FrameAt(nxt))..(height(FrameAt(cur)) - 1) :
               /\ \E i \in 1..(Len(CallLog) - 1) :
                      /\ CallLog[i] = Ev("move", r, <<>>)
                      /\ CallLog[i + 1] = Ev("erase", r, <<>>)
               /\ \A i \in 1..Len(CallLog) :
                      ~(CallLog[i].op = "write" /\ CallLog[i].row = r)
        /\ \A r \in 0..(height(FrameAt(nxt)) - 1) : SameRow(r) => ~Touched(r)

\* a frame of two rows shrank to its first row
C7_Witness ==
    /\ pc = "advance"
    /\ height(FrameAt(cur)) = 2
    /\ height(FrameAt(nxt)) = 1
    /\ SameRow(0)
    /\ Touched(1)

\* C8: when next is higher than current, a completed
\* render_frame_difference(current, next) has, for every row from
\* current.height to next.height - 1, moved to the row, erased it and written
\* next's row there, an empty row too; a row below current.height that is the
\* same in both frames got no cursor move, no erase and no write.
C8_Grow ==
    pc = "advance" /\ height(FrameAt(nxt)) > height(FrameAt(cur)) =>
        /\ \A r \in height(FrameAt(cur))..(height(FrameAt(nxt)) - 1) :
               \E i \in 1..(Len(CallLog) - 2) :
                   /\ CallLog[i] = Ev("move", r, <<>>)
                   /\ CallLog[i + 1] = Ev("erase", r, <<>>)
                   /\ CallLog[i + 2] = Ev("write", r, FrameAt(nxt).lines[r + 1])
        /\ \A r \in 0..(height(FrameAt(cur)) - 1) : SameRow(r) => ~Touched(r)

\* a frame of one row grew by an empty row
C8_Witness ==
    /\ pc = "advance"
    /\ height(FrameAt(cur)) = 1
    /\ height(FrameAt(nxt)) = 2
    /\ SameRow(0)
    /\ FrameAt(nxt).lines[2] = <<>>
    /\ Touched(1)

\* C9: a completed render_frame_difference has flushed the stream exactly once,
\* after every cursor move, erase and row write of the call; before its end the
\* call has not flushed.
C9_SingleFlush ==
    /\ pc \in DiffPcs => \A i \in 1..Len(CallLog) : CallLog[i].op /= "flush"
    /\ pc = "advance" =>
           /\ Len(CallLog) >= 1
           /\ CallLog[Len(CallLog)].op = "flush"
           /\ \A i \in 1..(Len(CallLog) - 1) : CallLog[i].op /= "flush"

\* a call that rewrote one row and erased a trailing one, and flushed
C9_Witness ==
    /\ pc = "advance"
    /\ height(FrameAt(nxt)) < height(FrameAt(cur))
    /\ ~SameRow(0)
    /\ Touched(0)
    /\ Touched(1)
    /\ CallLog[Len(CallLog)].op = "flush"

\* the stream from the first sleep on, up to the interrupt if there was one
LoopLog ==
    LET end == IF intLen >= 0 THEN intLen ELSE Len(log)
        sleeps == { i \in 1..end : log[i].op = "sleep" }
    IN  IF sleeps = {} THEN <<>>
        ELSE SubSeq(log, CHOOSE i \in sleeps : \A j \in sleeps : i <= j, end)

IsSleep(e) == e.op = "sleep"
IsFlush(e) == e.op = "flush"
IsSleepOrFlush(e) == e.op \in { "sleep", "flush" }

\* the frame the iterator yielded before the one it yielded last
PrevFetched == CycleList[((pos + Len(CycleList) - 2) % Len(CycleList)) + 1]

\* C10: in the loop the sleeps and the flushes that end the diff renders
\* alternate, a sleep first; cursor moves, erases and writes come only between
\* a sleep and the next flush; the k-th sleep begins only when k-1 renders have
\* flushed and current is the frame rendered last, and the k-th render runs
\* only after k sleeps.
C10_NoPipelining ==
    intPc = "none" =>
        /\ LET sf == SelectSeq(LoopLog, IsSleepOrFlush)
           IN  \A i \in 1..Len(sf) : sf[i].op = IF i % 2 = 1 THEN "sleep" ELSE "flush"
        /\ \A i \in 1..(Len(LoopLog) - 1) :
               LoopLog[i].op = "flush" => LoopLog[i + 1].op = "sleep"
        /\ pc = "sleep" =>
               /\ Len(SelectSeq(LoopLog, IsSleep)) = k - 1
               /\ Len(SelectSeq(LoopLog, IsFlush)) = k - 1
               /\ log[Len(log)].op = "flush"
               /\ k >= 2 => cur = PrevFetched
        /\ pc \in DiffPcs =>
               /\ Len(SelectSeq(LoopLog, IsSleep)) = k
               /\ Len(SelectSeq(LoopLog, IsFlush)) = k - 1
        /\ pc = "advance" =>
               /\ Len(SelectSeq(LoopLog, IsSleep)) = k
               /\ Len(SelectSeq(LoopLog, IsFlush)) = k
        /\ pc = "fetch" /\ k >= 1 =>
               /\ Len(SelectSeq(LoopLog, IsSleep)) = k
               /\ Len(SelectSeq(LoopLog, IsFlush)) = k
               /\ cur = nxt

\* the third sleep is about to begin: two renders have flushed and current
\* is the second frame rendered
C10_Witness ==
    /\ intPc = "none"
    /\ pc = "sleep"
    /\ k = 3
    /\ Len(frames) = 3
    /\ cur = 2
    /\ Len(SelectSeq(LoopLog, IsFlush)) = 2


\* the positions of t where a line ends: a line break, a carriage return
\* right before a line feed not counted
LineEnds(t) ==
    { i \in 1..Len(t) :
        /\ t[i] \in LineBreaks
        /\ ~(t[i] = "\r" /\ i < Len(t) /\ t[i + 1] = "\n") }

\* the number of lines of the text t
NumLines(t) ==
    Cardinality(LineEnds(t)) + (IF t /= <<>> /\ t[Len(t)] \notin LineBreaks THEN 1 ELSE 0)

IsLineBreak(c) == c \in LineBreaks
NoLineBreak(c) == c \notin LineBreaks

RECURSIVE Concat(_)
Concat(l) == IF l = <<>> THEN <<>> ELSE Head(l) \o Concat(Tail(l))

\* f is what Frame makes of the text t: as many rows as t has lines, the rows
\* being the characters of t between its line breaks, in order; height and width
\* as the rows give them; get_line the row of an index from 0 to height - 1 and
\* None for every other index
FrameOfText(f, t) ==
    /\ f.height = NumLines(t)
    /\ f.height = Len(f.lines)
    /\ \A i \in 1..Len(f.lines) : SelectSeq(f.lines[i], IsLineBreak) = <<>>
    /\ Concat(f.lines) = SelectSeq(t, NoLineBreak)
    /\ f.width >= 0
    /\ \A i \in 1..Len(f.lines) : Len(f.lines[i]) <= f.width
    /\ t = <<>> => f.height = 0 /\ f.width = 0
    /\ \A i \in (0 - 2)..(f.height + 1) :
           get_line(f, i) = IF 0 <= i /\ i < f.height THEN Some(f.lines[i + 1]) ELSE None
    /\ \A i \in 0..(f.height - 1) : get_line(f, i) /= None

\* C11: a Frame made of a text has as many rows as the text has lines, empty
\* rows kept, height 0 and width 0 for the empty text; get_line(y) is the y-th
\* row for 0 <= y < height and None, which no row equals, for every other y.
\* It holds of every text of the model, line feeds and carriage returns in
\* every place (looked at when main starts), and of every frame load_frames
\* has made.
C11_FrameOfText ==
    /\ pc = "main_load" => \A t \in Texts(MaxText) : FrameOfText(Frame(FrameName(0), t), t)
    /\ \A i \in 1..Len(frames) : FrameOfText(frames[i], FileText(frames[i].name))

\* load_frames has made a frame of a file whose second line is empty
C11_Witness ==
    /\ pc = "main_print"
    /\ Len(frames) = 1
    /\ dir[1].raw = << "a", "\n", "\n" >>
    /\ frames[1].lines = << << "a" >>, <<>> >>
    /\ get_line(frames[1], 1) = Some(<<>>)
    /\ get_line(frames[1], 2) = None
    /\ get_line(frames[1], 0 - 1) = None

\* a cursor move, an erase, a clear or a mode switch
IsControl(e) ==
    e.op \in { "hide", "show", "sync_on", "sync_off", "clear", "move", "erase" }

\* C12: in a directory without a frame file load_frames raises "No frame
\* files found" and loads no frame; main prints the error and ends without a
\* call of run_animation, and the stream gets no control sequence.
C12_EmptySource ==
    frame_files = <<>> =>
        /\ pc \in { "main_load", "main_except", "exit" }
        /\ frames = <<>>
        /\ pc /= "main_load" => exc = "ValueError: No frame files found"
        /\ SelectSeq(log, IsControl) = <<>>
        /\ log = IF pc = "exit"
                 THEN << Ev("print", 0, << "Error", "ValueError: No frame files found" >>) >>
                 ELSE <<>>

\* a directory that holds a file, but no frame file: main has ended
C12_Witness ==
    /\ frame_files = <<>>
    /\ Len(dir) = 1
    /\ pc = "exit"
    /\ log = << Ev("print", 0, << "Error", "ValueError: No frame files found" >>) >>

\* C13: once a write or a flush of the try block has failed, run_animation
\* fetches no further frame and does not return: it is in its finally block or
\* the exception has left it, main is the one that gets it, and the process
\* ends (main prints the error and ends, or the interpreter ends it).
C13_IoFailurePropagates ==
    /\ [](ioPc /= "none" =>
            /\ pc \in FinallyPcs \cup { "raised", "exit", "crashed" }
            /\ exc /= "none"
            /\ pc = "raised" => exc \in { "OSError", "KeyboardInterrupt" })
    /\ (ioPc /= "none") ~> (pc \in { "exit", "crashed" })

\* the write of a row of a diff render has failed, the finally block has run
\* through and the OSError has left run_animation
C13_Witness ==
    /\ ioPc = "d_write"
    /\ pc = "raised"
    /\ exc = "OSError"
    /\ log[Len(log)].op = "flush"
    /\ log[Len(log) - 1].op = "notice"


\* the frames load_frames made are the frames of the files of frame_files
LoadedFrom(fs) ==
    /\ Len(frames) = Len(fs)
    /\ \A i \in 1..Len(fs) : \E j \in 1..Len(frames) : frames[j].name = fs[i]
    /\ \A i \in 1..Len(frames) : frames[i] = Frame(frames[i].name, FileText(frames[i].name))

\* load_frames has returned: it has run and has not raised
LoadReturned ==
    /\ dir /= <<>>
    /\ pc /= "main_load"
    /\ exc \notin { "ValueError: No frame files found",
                    "ValueError: invalid literal for int()" }

\* C14: when load_frames returns, the frames are the matching files, one
\* frame for each, in the order of the numbers their names hold: a frame never
\* stands before one of a smaller number, whatever the lengths of the numerals.
C14_FrameOrder ==
    LoadReturned =>
        /\ LoadedFrom(frame_files)
        /\ \A i \in 1..Len(frames) : \A j \in i..Len(frames) :
               ParseInt(frames[i].name.idx) <= ParseInt(frames[j].name.idx)

\* the directory lists frame 10 before the frames 2 and 02: it is loaded last
C14_Witness ==
    /\ pc = "main_print"
    /\ Len(dir) = 3
    /\ dir[1].name = FileName("frame_cleaned_", << "1", "0" >>, ".txt")
    /\ dir[2].name = FileName("frame_cleaned_", << "2" >>, ".txt")
    /\ dir[3].name = FileName("frame_cleaned_", << "0", "2" >>, ".txt")
    /\ Len(frames) = 3
    /\ frames[1].name = dir[2].name
    /\ frames[2].name = dir[3].name
    /\ frames[3].name = dir[1].name

\* the number of events op of row r in the current call
Count(op, r) == Len(SelectSeq(CallLog, LAMBDA e : e.op = op /\ e.row = r))

\* row r is a row of the current frame below the last row of the next one
Trailing(r) == height(FrameAt(nxt)) <= r /\ r < height(FrameAt(cur))

\* C15 as stated: a row is touched iff it differs, and then once: one move,
\* one erase, at most one write.  The code refutes it: a trailing row of a
\* shrink is moved to and erased by the main loop and again by the second one.
C15_TouchedOnce ==
    /\ pc \in DiffPcs \cup { "advance" } =>
           \A r \in ScreenRows :
               /\ SameRow(r) => Count("move", r) + Count("erase", r) + Count("write", r) = 0
               /\ Count("move", r) <= 1
               /\ Count("erase", r) <= 1
               /\ Count("write", r) <= 1
    /\ pc = "advance" =>
           \A r \in ScreenRows :
               ~SameRow(r) => Count("move", r) = 1 /\ Count("erase", r) = 1

\* C15, amended: a row is touched iff it differs; a differing row is moved to
\* and erased once, and written once if the next frame has it, except that a
\* trailing row of a shrink (next.height <= y < current.height) is moved to and
\* erased twice, once by each loop; an unchanged row is not touched.
C15_TouchedOnceOrTrailingTwice ==
    /\ pc \in DiffPcs \cup { "advance" } =>
           \A r \in ScreenRows :
               /\ SameRow(r) => Count("move", r) + Count("erase", r) + Count("write", r) = 0
               /\ Count("move", r) <= (IF Trailing(r) THEN 2 ELSE 1)
               /\ Count("erase", r) <= (IF Trailing(r) THEN 2 ELSE 1)
               /\ Count("write", r) <= 1
    /\ pc = "advance" =>
           \A r \in ScreenRows :
               ~SameRow(r) =>
                   /\ Count("move", r) = (IF Trailing(r) THEN 2 ELSE 1)
                   /\ Count("erase", r) = (IF Trailing(r) THEN 2 ELSE 1)
                   /\ Count("write", r) = (IF get_line(FrameAt(nxt), r) /= None THEN 1 ELSE 0)

\* a call from a frame of two rows to a frame of one other row has ended:
\* row 0 touched once, the trailing row 1 twice
C15_Witness ==
    /\ pc = "advance"
    /\ height(FrameAt(cur)) = 2
    /\ height(FrameAt(nxt)) = 1
    /\ ~SameRow(0)
    /\ Count("move", 0) = 1 /\ Count("erase", 0) = 1 /\ Count("write", 0) = 1
    /\ Count("move", 1) = 2 /\ Count("erase", 1) = 2 /\ Count("write", 1) = 0


\* C16: the second loop of render_frame_difference changes nothing.  When the
\* main loop has ended the screen already shows the next frame; each row the
\* second loop comes to is a row of current beyond next that the main loop has
\* erased once and not written, so that its erase finds the row blank; and
\* when the call has ended the rows erased and left without content are
\* exactly the rows that current has and next has not.
C16_SecondPassRedundant ==
    /\ pc \in { "s_move", "s_erase", "d_flush" } => ScreenShows(FrameAt(nxt))
    /\ pc \in { "s_move", "s_erase" } =>
           /\ Trailing(y)
           /\ screen[y] = Blank
           /\ Count("write", y) = 0
           /\ Count("erase", y) = 1
           /\ \E i \in 1..Len(CallLog) : CallLog[i] = Ev("erase", y, <<>>)
    /\ pc = "s_erase" => cursor.row = y /\ screen[cursor.row] = Blank
    /\ pc = "advance" =>
           \A r \in ScreenRows :
               (Count("erase", r) >= 1 /\ Count("write", r) = 0) <=> Trailing(r)

\* the second loop is about to erase row 1, which the main loop left blank
C16_Witness ==
    /\ pc = "s_erase"
    /\ y = 1
    /\ height(FrameAt(cur)) = 2
    /\ height(FrameAt(nxt)) = 1
    /\ FrameAt(cur).lines[2] /= Blank
    /\ screen[1] = Blank
    /\ Count("erase", 1) = 1

\* the interrupt came during the sleep or inside a diff render
InterruptedInLoop == intPc \in DiffPcs \cup { "sleep" }

\* C17: after an interrupt during the sleep or inside a diff render the try
\* block is left for good: the current frame, the frame fetched and the number
\* of frames fetched stay as they were, the stream gets the teardown sequence
\* and nothing before it, and the screen stays as the interrupted render left
\* it until the clear of the teardown.
C17_CancelNoRollback ==
    /\ [](InterruptedInLoop =>
            /\ pc \in FinallyPcs \cup { "returned", "raised" }
            /\ Len(log) - intLen <= Len(TeardownEvents)
            /\ SubSeq(log, intLen + 1, Len(log))
                   = SubSeq(TeardownEvents, 1, Len(log) - intLen))
    /\ [][InterruptedInLoop' =>
            /\ cur' = cur /\ nxt' = nxt /\ k' = k /\ pos' = pos
            /\ pc' \in { "td_show", "td_clear" } => screen' = screen]_vars

\* interrupted between the erase and the write of row 0 of a diff render: the
\* teardown is about to clear a screen that shows neither frame
C17_Witness ==
    /\ intPc = "d_write"
    /\ pc = "td_clear"
    /\ y = 0
    /\ cur /= nxt
    /\ screen[0] = Blank
    /\ ~ScreenShows(FrameAt(cur))
    /\ ~ScreenShows(FrameAt(nxt))
    /\ log[Len(log)].op = "show"
    /\ log[Len(log) - 1].op = "erase"

RECURSIVE RowEvents(_, _)
\* the move and the write of the rows i.. of the full render of f
RowEvents(f, i) ==
    IF i >= height(f) THEN <<>>
    ELSE << Ev("move", i, <<>>), Ev("write", i, f.lines[i + 1]) >> \o RowEvents(f, i + 1)

\* the output of Setup
SetupEvents ==
    << Ev("hide", 0, <<>>), Ev("sync_on", 0, <<>>), Ev("flush", 0, <<>>),
       Ev("clear", 0, <<>>) >> \o RowEvents(FrameAt(0), 0) \o << Ev("flush", 0, <<>>) >>

\* the statements of Setup
SetupPcs ==
    { "hide", "sync_write", "sync_flush", "rf_clear", "rf_move", "rf_write",
      "rf_flush", "set_current" }

\* the number of events before the teardown
TryLen == IF intLen = 0 - 1 THEN Len(log) ELSE intLen

\* C18: a run with frames whose Setup is not interrupted puts out hide-cursor,
\* enable-sync (and its flush), then one full render of frames[0] (clear, move
\* and write of each row in order, flush), and only then the first sleep; no
\* second clear comes before the teardown; every move, erase and write of a
\* row is put out with the cursor hidden and synchronized mode on; the mode is
\* enabled once, and disabled, like the cursor shown, only in the teardown.
C18_SetupAndBracket ==
    [](/\ frames /= <<>> /\ pc \notin SetupPcs \cup { "start" } /\ intPc \notin SetupPcs =>
              LET setup == SetupEvents
              IN  /\ Len(log) >= Len(setup)
                  /\ \A i \in 1..Len(setup) : log[i] = setup[i]
                  /\ \A i \in 1..Len(log) : log[i].op = "sleep" => i > Len(setup)
                  /\ \A i \in 1..TryLen : log[i].op = "clear" => i <= Len(setup)
       /\ pc \in { "rf_move", "rf_write", "d_move", "d_erase", "d_write", "s_move", "s_erase" } =>
              ~cursorVisible /\ syncMode
       /\ \A i \in 1..TryLen :
              log[i].op \in { "move", "erase", "write" } =>
                  log[1].op = "hide" /\ log[2].op = "sync_on" /\ i > 2
       /\ \A i \in 1..Len(log) :
              /\ log[i].op = "sync_on" => i = 2
              /\ log[i].op \in { "sync_off", "show" } => intLen /= 0 - 1 /\ i > intLen)

\* the second diff render of a run is writing a row: the cursor hidden, the
\* mode on, the output of Setup at the head of the stream
C18_Witness ==
    /\ pc = "d_write"
    /\ k = 2
    /\ intPc = "none"
    /\ height(FrameAt(0)) = 2
    /\ SubSeq(log, 1, Len(SetupEvents)) = SetupEvents
    /\ log[Len(SetupEvents) + 1].op = "sleep"
    /\ Cardinality({ i \in 1..Len(log) : log[i].op = "clear" }) = 1
    /\ ~cursorVisible
    /\ syncMode

\* C19: no step of run_animation changes the frame sequence or a frame of it;
\* every frame stays what Frame made of its rows; the current frame and the
\* frame fetched are frames of the sequence.
C19_FramesReadOnly ==
    /\ [][frames' = frames]_vars
    /\ [](\A i \in 1..Len(frames) :
              frames[i] = Frame(FrameName(i - 1), TextOf(frames[i].lines)))
    /\ [](cur /= 0 - 1 => cur \in 0..(Len(frames) - 1))
    /\ [](nxt /= 0 - 1 => nxt \in 0..(Len(frames) - 1))

\* three frames played once around: the current frame is frames[0] again
C19_Witness ==
    /\ pc = "fetch"
    /\ Len(frames) = 3
    /\ k = 3
    /\ cur = 0
    /\ nxt = 0

====
